---- MODULE Spec2Model ----
(***************************************************************************)
(* A model of bin/build.js: the esbuild orchestration script with its      *)
(* three onEnd plugins (copy-public-to-dist, generate-dist-package-json,   *)
(* copy-readme-to-dist), the production / development branch of the main   *)
(* script and logServedFiles.                                              *)
(*                                                                         *)
(* Strings that the code takes apart (paths, file names, URLs) are         *)
(* sequences of tokens: "dist/app.js.map" is                               *)
(* <<"dist", "/", "app", ".js", ".map">>.  A file name is the sequence of  *)
(* its tokens, a relative path is a sequence of file names, and a          *)
(* directory tree is a function from the relative paths that exist to the  *)
(* node found there (the root, <<>>, included; the empty function is a    *)
(* directory that does not exist).                                         *)
(***************************************************************************)
EXTENDS Integers, Sequences, FiniteSets, TLC

\* Bounds of the model.
MaxBuilds == 2
MaxFailures == 1
MaxPairs == 2

\* ------------------------------------------------------------ configuration

BUILD_DIRECTORY == <<"dist">>
SERVE_PORT == 3000
SERVE_ORIGIN == <<"http://localhost:", ToString(SERVE_PORT)>>

\* The hooks, in the order the plugins array registers them.
Hooks == {"copyPublic", "generatePackageJson", "copyReadme"}

\* ------------------------------------------------------------ file system

DIR == [kind |-> "dir", data |-> "", pairs |-> <<>>]
Missing == [kind |-> "missing", data |-> "", pairs |-> <<>>]
Blob(s) == [kind |-> "blob", data |-> s, pairs |-> <<>>]
\* The text of a JSON object literal: its members in the order written
\* (a key may be written twice).
JsonText(members) == [kind |-> "json", data |-> "object", pairs |-> members]
JsonNullText == [kind |-> "json", data |-> "null", pairs |-> <<>>]

NoDir == [p \in {} |-> DIR]

nPackageJson == <<"package", ".json">>
nReadme == <<"README", ".md">>
nIndexJs == <<"index", ".js">>
nIndexJsMap == <<"index", ".js", ".map">>
nIndexCss == <<"index", ".css">>
nFavicon == <<"favicon", ".ico">>
nAssets == <<"assets">>
nLogoCss == <<"logo", ".css">>
nOldTxt == <<"old", ".txt">>
nSrcMap == <<"src", ".map">>
nInner == <<"inner">>

\* The order in which a directory listing yields its entries.
NameOrder ==
  << nAssets, nFavicon, nIndexCss, nIndexJs, nIndexJsMap, nInner, nLogoCss,
     nOldTxt, nPackageJson, nReadme, nSrcMap >>

Exists(t, p) == p \in DOMAIN t
IsDir(t, p) == p \in DOMAIN t /\ t[p].kind = "dir"
IsFile(t, p) == p \in DOMAIN t /\ t[p].kind # "dir"
Prefixes(p) == {SubSeq(p, 1, k) : k \in 0..Len(p)}
Parent(p) == SubSeq(p, 1, Len(p) - 1)
FilePaths(t) == {p \in DOMAIN t : t[p].kind # "dir"}

\* A tree from its files (a function from file paths to contents) and its
\* empty directories.
Tree(files, dirs) ==
  LET ds == UNION {Prefixes(Parent(p)) : p \in DOMAIN files}
            \cup UNION {Prefixes(d) : d \in dirs}
  IN  [p \in ds \cup DOMAIN files |-> IF p \in DOMAIN files THEN files[p] ELSE DIR]

Children(t, d) ==
  {p[Len(p)] : p \in {q \in DOMAIN t : Len(q) = Len(d) + 1 /\ SubSeq(q, 1, Len(d)) = d}}

\* fs.readdir / readdirSync(dir, {withFileTypes: true}).
readdir(t, d) ==
  IF IsDir(t, d)
  THEN [ok |-> TRUE, entries |-> SelectSeq(NameOrder, LAMBDA n : n \in Children(t, d))]
  ELSE [ok |-> FALSE, entries |-> <<>>]

\* A mkdir that empties the directory it ensures (a faulty variant of mkdir).
mkdirClean(t, p) ==
  IF \E q \in Prefixes(p) : IsFile(t, q)
  THEN [ok |-> FALSE, tree |-> t]
  ELSE LET keep == {r \in DOMAIN t : ~(Len(r) > Len(p) /\ SubSeq(r, 1, Len(p)) = p)}
       IN  [ok |-> TRUE,
            tree |-> [q \in keep \cup Prefixes(p) |-> IF q \in keep THEN t[q] ELSE DIR]]

\* mkdir(dest, {recursive: true}): creates every missing directory down to
\* dest; fails when dest or one of its ancestors is a file.
mkdir(t, p) ==
  IF \E q \in Prefixes(p) : IsFile(t, q)
  THEN [ok |-> FALSE, tree |-> t]
  ELSE [ok |-> TRUE,
        tree |-> [q \in DOMAIN t \cup Prefixes(p) |-> IF q \in DOMAIN t THEN t[q] ELSE DIR]]

\* A write that drops the directories of the path (a faulty variant of writeFile).
writeFileFlat(t, p, node) ==
  LET q == <<p[Len(p)]>>
  IN  IF ~IsDir(t, <<>>) \/ IsDir(t, q)
      THEN [ok |-> FALSE, tree |-> t]
      ELSE [ok |-> TRUE, tree |-> [r \in DOMAIN t \cup {q} |-> IF r = q THEN node ELSE t[r]]]

\* fs.writeFile(path, data) and the write half of copyFile: the parent must
\* be a directory and the path must not be one.
writeFile(t, p, node) ==
  IF ~IsDir(t, Parent(p)) \/ IsDir(t, p)
  THEN [ok |-> FALSE, tree |-> t]
  ELSE [ok |-> TRUE, tree |-> [q \in DOMAIN t \cup {p} |-> IF q = p THEN node ELSE t[q]]]

\* ------------------------------------------------------------------- JSON

Keys(obj) == {obj[i][1] : i \in DOMAIN obj}
Get(obj, k) == obj[CHOOSE i \in DOMAIN obj : obj[i][1] = k][2]

\* packageJson[k] = v on a JavaScript object: an existing key keeps its
\* place, a new key is added last.
SetMember(obj, k, v) ==
  IF k \in Keys(obj)
  THEN [i \in DOMAIN obj |-> IF obj[i][1] = k THEN <<k, v>> ELSE obj[i]]
  ELSE Append(obj, <<k, v>>)

\* delete packageJson[k]
DeleteMember(obj, k) == SelectSeq(obj, LAMBDA m : m[1] # k)

RECURSIVE ParseMembers(_)
ParseMembers(members) ==
  IF members = <<>> THEN <<>>
  ELSE LET m == members[Len(members)]
       IN  SetMember(ParseMembers(SubSeq(members, 1, Len(members) - 1)), m[1], m[2])

\* readFile + JSON.parse that never throws (a faulty variant of JSONparse).
JSONparseLenient(file) ==
  IF file.kind = "json"
  THEN [ok |-> TRUE, isObject |-> file.data = "object", members |-> ParseMembers(file.pairs)]
  ELSE [ok |-> TRUE, isObject |-> TRUE, members |-> <<>>]

\* readFile(..., 'utf-8') followed by JSON.parse: throws on a missing file
\* and on text that is not JSON; the text null parses to null.
JSONparse(file) ==
  IF file.kind = "json"
  THEN [ok |-> TRUE, isObject |-> file.data = "object", members |-> ParseMembers(file.pairs)]
  ELSE [ok |-> FALSE, isObject |-> FALSE, members |-> <<>>]

\* JSON.stringify(packageJson, null, 2)
JSONstringify(obj) == JsonText(obj)

StrippedKeys == {"scripts", "devDependencies", "files", "publishConfig"}

\* The transformation that forgets publishConfig (a faulty variant of
\* ModifyPackageJson).
ModifyPackageJsonKeepPublish(obj) ==
  SetMember(
    DeleteMember(DeleteMember(DeleteMember(obj, "scripts"), "devDependencies"), "files"),
    "browser", "index.js")

\* Lines 37-41: four deletes and the browser assignment.
ModifyPackageJson(obj) ==
  SetMember(
    DeleteMember(
      DeleteMember(DeleteMember(DeleteMember(obj, "scripts"), "devDependencies"), "files"),
      "publishConfig"),
    "browser", "index.js")

\* ---------------------------------------------------------------- state

VARIABLES
  PRODUCTION,    \* process.env.NODE_ENV === 'production'
  sep,           \* path.sep of the platform
  pkgFile,       \* <root>/package.json
  readmeFile,    \* <root>/README.md
  publicDir,     \* the tree at <root>/public
  dist,          \* the tree at <root>/dist
  pc,            \* where the main script is
  bpc,           \* where the bundler's build is: idle, emit, a hook, ended
  hpc,           \* where the running hook is
  stack,         \* the copyRecursive calls in progress, innermost last
  packageJson,   \* the text generatePackageJson is writing
  readmePending, \* copyReadme's copyFile promise is not settled
  builds,        \* builds started
  buildOK,       \* the bundler's own result of the current build
  hookResult,    \* how each hook ended in the current build
  console,       \* the lines logged (console.log, console.error)
  escaped,       \* hooks whose failure reached the bundler
  written,       \* the dist paths each hook has created or written
  failures,      \* I/O failures that have happened
  table,         \* what console.table was given
  reports,       \* calls of logServedFiles
  watching, serving, disposed,
  distBefore     \* dist as copyPublic found it in the current build

vars ==
  << PRODUCTION, sep, pkgFile, readmeFile, publicDir, dist, pc, bpc, hpc, stack,
     packageJson, readmePending, builds, buildOK, hookResult, console, escaped,
     written, failures, table, reports, watching, serving, disposed, distBefore >>

env == << PRODUCTION, sep, pkgFile, readmeFile, publicDir >>
mainVars == << pc, watching, serving, disposed, table, reports >>

\* An I/O operation may fail for a reason the trees do not show (EACCES,
\* ENOSPC, a port in use), MaxFailures times in a run.
FailChoices == IF failures < MaxFailures THEN {FALSE, TRUE} ELSE {FALSE}
Count(fail) == IF fail THEN failures + 1 ELSE failures

Alive == pc # "crashed"

\* --------------------------------------------------------- logServedFiles

\* path.join(dirPath, name)
join(dirPath, name) == dirPath \o <<sep>> \o name

\* String.prototype.endsWith
endsWith(s, suffix) ==
  Len(s) >= Len(suffix) /\ SubSeq(s, Len(s) - Len(suffix) + 1, Len(s)) = suffix

\* String.prototype.split(separator)
RECURSIVE split(_, _)
split(s, separator) ==
  IF s = <<>> THEN << <<>> >>
  ELSE LET rest == split(Tail(s), separator)
       IN  IF Head(s) = separator
           THEN << <<>> >> \o rest
           ELSE << <<Head(s)>> \o Head(rest) >> \o Tail(rest)

\* Array.prototype.join(separator)
RECURSIVE joinWith(_, _)
joinWith(parts, separator) ==
  IF Len(parts) = 0 THEN <<>>
  ELSE IF Len(parts) = 1 THEN parts[1]
  ELSE parts[1] \o <<separator>> \o joinWith(Tail(parts), separator)

\* A getFiles that does not descend into directories (a faulty variant of
\* getFiles).
getFilesShallow(t, dirPath, rel) ==
  LET entries == SelectSeq(readdir(t, rel).entries, LAMBDA n : ~IsDir(t, rel \o <<n>>))
  IN  [i \in DOMAIN entries |-> join(dirPath, entries[i])]

\* getFiles(dirPath): the flattened listing; rel is the directory dirPath
\* names, as an address in the tree.
RECURSIVE getFilesOf(_, _, _, _)
RECURSIVE getFiles(_, _, _)
getFilesOf(t, dirPath, rel, entries) ==
  IF entries = <<>> THEN <<>>
  ELSE LET n == Head(entries)
       IN  (IF IsDir(t, rel \o <<n>>)
            THEN getFiles(t, join(dirPath, n), rel \o <<n>>)
            ELSE << join(dirPath, n) >>)
           \o getFilesOf(t, dirPath, rel, Tail(entries))

getFiles(t, dirPath, rel) == getFilesOf(t, dirPath, rel, readdir(t, rel).entries)

\* Lines 180-198: one row of the table.
fileInfo(file) ==
  LET paths == [split(file, sep) EXCEPT ![1] = SERVE_ORIGIN]
      location == joinWith(paths, "/")
  IN  [location |-> location,
       tag |-> IF endsWith(location, <<".css">>)
               THEN <<"link stylesheet", location>>
               ELSE <<"script defer", location>>]

\* Lines 177-199: map, then filter(Boolean) drops the .map files.
filesInfo(t) ==
  LET files == SelectSeq(getFiles(t, BUILD_DIRECTORY, <<>>),
                         LAMBDA f : ~endsWith(f, <<".map">>))
  IN  [i \in DOMAIN files |-> fileInfo(files[i])]

\* ------------------------------------------------------------ the bundler

NoResults == [h \in Hooks |-> "none"]

\* esbuild writes the bundle into outdir (with a source map when
\* sourcemap: !PRODUCTION); a build with errors writes nothing.
EmitOutputs(t) ==
  LET d == mkdir(t, <<>>)
      js == writeFile(d.tree, <<nIndexJs>>, Blob("bundle"))
      mp == IF PRODUCTION THEN js
            ELSE writeFile(js.tree, <<nIndexJsMap>>, Blob("sourcemap"))
  IN  IF d.ok /\ js.ok /\ mp.ok THEN [ok |-> TRUE, tree |-> mp.tree]
      ELSE [ok |-> FALSE, tree |-> t]

\* One build: the bundle is produced (or the build has errors), and the
\* onEnd callbacks start, copy-public-to-dist first.
Bundle ==
  /\ bpc = "emit"
  /\ Alive
  /\ \E ok \in BOOLEAN :
       LET out == IF ok THEN EmitOutputs(dist) ELSE [ok |-> FALSE, tree |-> dist]
       IN  /\ buildOK' = out.ok
           /\ dist' = out.tree
  /\ bpc' = "copyPublic"
  /\ hpc' = "access"
  /\ hookResult' = NoResults
  /\ UNCHANGED << env, mainVars, stack, packageJson, readmePending, builds, console,
                  escaped, written, failures, distBefore >>

\* ---------------------------------------------------- copy-public-to-dist

\* An existence check that always answers yes (a faulty variant of
\* publicDirExists).
publicDirAssumed(fail) == TRUE

\* Lines 88-91: fs.access(publicDir).then(() => true).catch(() => false)
publicDirExists(fail) == Exists(publicDir, <<>>) /\ ~fail

\* A handler that lets the error go on to the caller (a faulty variant of
\* CatchCopyPublic).
RethrowCopyPublic ==
  [console |-> console, escaped |-> escaped \cup {"copyPublic"}]

\* Lines 115-117: catch (error) { console.error(...) }
CatchCopyPublic ==
  [console |-> console \cup {"Error in copyPublicPlugin:"}, escaped |-> escaped]

\* The callback's promise settles; esbuild goes on to the next callback.
EndCopyPublic(result) ==
  /\ hookResult' = [hookResult EXCEPT !["copyPublic"] = result]
  /\ stack' = <<>>
  /\ bpc' = IF PRODUCTION THEN "generatePackageJson" ELSE "idle"
  /\ hpc' = IF PRODUCTION THEN "read" ELSE "none"

FailCopyPublic ==
  /\ console' = CatchCopyPublic.console
  /\ escaped' = CatchCopyPublic.escaped
  /\ EndCopyPublic("error")
  /\ UNCHANGED << dist, written >>

\* Lines 86-93 and 112-114: the existence check and the skip.
CopyAccess ==
  /\ bpc = "copyPublic" /\ hpc = "access" /\ Alive
  /\ \E fail \in FailChoices :
       /\ failures' = Count(fail)
       /\ IF publicDirExists(fail)
          THEN /\ stack' = << [rel |-> <<>>, todo |-> <<>>, entered |-> FALSE] >>
               /\ hpc' = "copy"
               /\ UNCHANGED << console, bpc, hookResult >>
          ELSE /\ console' = console \cup {"Public directory does not exist. Skipping copy operation."}
               /\ EndCopyPublic("skipped")
  /\ distBefore' = dist
  /\ UNCHANGED << env, mainVars, dist, packageJson, readmePending, builds, buildOK,
                  escaped, written >>

Top == stack[Len(stack)]
Copying == bpc = "copyPublic" /\ hpc = "copy" /\ Alive /\ stack # <<>>

\* Lines 95-96: readdir(src), then mkdir(dest, {recursive: true}).
CopyEnter ==
  /\ Copying /\ ~Top.entered
  /\ \E fail \in FailChoices :
       LET rd == readdir(publicDir, Top.rel)
           mk == mkdir(dist, Top.rel)
       IN  /\ failures' = Count(fail)
           /\ IF fail \/ ~rd.ok \/ ~mk.ok
              THEN FailCopyPublic
              ELSE /\ dist' = mk.tree
                   /\ written' = [written EXCEPT
                                    !["copyPublic"] = @ \cup (DOMAIN mk.tree \ DOMAIN dist)]
                   /\ stack' = [stack EXCEPT ![Len(stack)] =
                                  [rel |-> Top.rel, todo |-> rd.entries, entered |-> TRUE]]
                   /\ UNCHANGED << console, escaped, bpc, hpc, hookResult >>
  /\ UNCHANGED << env, mainVars, packageJson, readmePending, builds, buildOK, distBefore >>

\* Lines 98-103: the entry is a directory, copyRecursive is called on it.
CopyEntryDir ==
  /\ Copying /\ Top.entered /\ Top.todo # <<>>
  /\ IsDir(publicDir, Top.rel \o <<Head(Top.todo)>>)
  /\ stack' = Append([stack EXCEPT ![Len(stack)].todo = Tail(@)],
                     [rel |-> Top.rel \o <<Head(Top.todo)>>, todo |-> <<>>,
                      entered |-> FALSE])
  /\ UNCHANGED << env, mainVars, dist, bpc, hpc, packageJson, readmePending, builds,
                  buildOK, hookResult, console, escaped, written, failures, distBefore >>

\* fs.copyFile(src, dest) of a file whose content is node.
copyFile(node, t, destPath) ==
  IF node.kind \in {"missing", "dir"}
  THEN [ok |-> FALSE, tree |-> t]
  ELSE writeFile(t, destPath, node)

\* Lines 104-106: the entry is a file, copyFile(srcPath, destPath).
CopyEntryFile ==
  /\ Copying /\ Top.entered /\ Top.todo # <<>>
  /\ ~IsDir(publicDir, Top.rel \o <<Head(Top.todo)>>)
  /\ \E fail \in FailChoices :
       LET p == Top.rel \o <<Head(Top.todo)>>
           cp == copyFile(publicDir[p], dist, p)
       IN  /\ failures' = Count(fail)
           /\ IF fail \/ ~cp.ok
              THEN FailCopyPublic
              ELSE /\ dist' = cp.tree
                   /\ written' = [written EXCEPT !["copyPublic"] = @ \cup {p}]
                   /\ stack' = [stack EXCEPT ![Len(stack)].todo = Tail(@)]
                   /\ UNCHANGED << console, escaped, bpc, hpc, hookResult >>
  /\ UNCHANGED << env, mainVars, packageJson, readmePending, builds, buildOK, distBefore >>

\* The for loop of a copyRecursive call is over: the call returns, and the
\* outermost return logs and ends the callback (lines 110-111).
CopyReturn ==
  /\ Copying /\ Top.entered /\ Top.todo = <<>>
  /\ IF Len(stack) = 1
     THEN /\ console' = console \cup {"Public directory contents copied to dist directory"}
          /\ EndCopyPublic("ok")
     ELSE /\ stack' = SubSeq(stack, 1, Len(stack) - 1)
          /\ UNCHANGED << console, bpc, hpc, hookResult >>
  /\ UNCHANGED << env, mainVars, dist, packageJson, readmePending, builds, buildOK,
                  escaped, written, failures, distBefore >>

\* --------------------------------------------- generate-dist-package-json

\* Lines 49-51: catch (error) { console.error(...) }
CatchGeneratePackageJson ==
  [console |-> console \cup {"Error generating package.json:"}, escaped |-> escaped]

EndGeneratePackageJson(result) ==
  /\ hookResult' = [hookResult EXCEPT !["generatePackageJson"] = result]
  /\ packageJson' = Missing
  /\ bpc' = "copyReadme"
  /\ hpc' = "none"

FailGeneratePackageJson ==
  /\ console' = CatchGeneratePackageJson.console
  /\ escaped' = CatchGeneratePackageJson.escaped
  /\ EndGeneratePackageJson("error")
  /\ UNCHANGED << dist, written >>

\* Lines 33-47, to the call of writeFile: the read, the parse, the deletes
\* (a TypeError when the text parsed to null) and the stringify.
GenerateRead ==
  /\ bpc = "generatePackageJson" /\ hpc = "read" /\ Alive
  /\ \E fail \in FailChoices :
       LET parsed == JSONparse(pkgFile)
       IN  /\ failures' = Count(fail)
           /\ IF fail \/ ~parsed.ok \/ ~parsed.isObject
              THEN FailGeneratePackageJson
              ELSE /\ packageJson' = JSONstringify(ModifyPackageJson(parsed.members))
                   /\ hpc' = "write"
                   /\ UNCHANGED << dist, written, console, escaped, bpc, hookResult >>
  /\ UNCHANGED << env, mainVars, stack, readmePending, builds, buildOK, distBefore >>

\* Lines 44-48: writeFile settles.
GenerateWrite ==
  /\ bpc = "generatePackageJson" /\ hpc = "write" /\ Alive
  /\ \E fail \in FailChoices :
       LET w == writeFile(dist, <<nPackageJson>>, packageJson)
       IN  /\ failures' = Count(fail)
           /\ IF fail \/ ~w.ok
              THEN FailGeneratePackageJson
              ELSE /\ dist' = w.tree
                   /\ written' = [written EXCEPT
                                    !["generatePackageJson"] = @ \cup {<<nPackageJson>>}]
                   /\ console' = console \cup {"package.json generated in dist directory"}
                   /\ EndGeneratePackageJson("ok")
                   /\ UNCHANGED escaped
  /\ UNCHANGED << env, mainVars, stack, readmePending, builds, buildOK, distBefore >>

\* ----------------------------------------------------- copy-readme-to-dist

\* Line 69: .catch((error) => console.error(...))
CatchCopyReadme ==
  [console |-> console \cup {"Error copying README.md:"}, escaped |-> escaped]

\* Lines 62-70: the callback starts copyFile and returns undefined, so the
\* bundler has nothing to wait for and the build ends.
CopyReadmeStart ==
  /\ bpc = "copyReadme" /\ Alive
  /\ readmePending' = TRUE
  /\ bpc' = "ended"
  /\ UNCHANGED << env, mainVars, dist, hpc, stack, packageJson, builds, buildOK,
                  hookResult, console, escaped, written, failures, distBefore >>

\* Lines 67-69: the copyFile promise settles, some time after the callback
\* returned and while the process lives.
CopyReadmeSettle ==
  /\ readmePending /\ Alive
  /\ readmePending' = FALSE
  /\ \E fail \in FailChoices :
       LET cp == copyFile(readmeFile, dist, <<nReadme>>)
       IN  /\ failures' = Count(fail)
           /\ IF fail \/ ~cp.ok
              THEN /\ console' = CatchCopyReadme.console
                   /\ escaped' = CatchCopyReadme.escaped
                   /\ hookResult' = [hookResult EXCEPT !["copyReadme"] = "error"]
                   /\ UNCHANGED << dist, written >>
              ELSE /\ dist' = cp.tree
                   /\ written' = [written EXCEPT !["copyReadme"] = @ \cup {<<nReadme>>}]
                   /\ console' = console \cup {"README.md copied to dist directory"}
                   /\ hookResult' = [hookResult EXCEPT !["copyReadme"] = "ok"]
                   /\ UNCHANGED escaped
  /\ UNCHANGED << env, mainVars, bpc, hpc, stack, packageJson, builds, buildOK,
                  distBefore >>

\* -------------------------------------------------------- the main script

\* A branch that takes the development path in production and the
\* production path in development (a faulty variant of CreateContext).
CreateContextInverted ==
  /\ pc = "context"
  /\ pc' = IF PRODUCTION THEN "watch" ELSE "rebuild"
  /\ UNCHANGED << env, dist, bpc, hpc, stack, packageJson, readmePending, builds,
                  buildOK, hookResult, console, escaped, written, failures, table,
                  reports, watching, serving, disposed, distBefore >>

\* Lines 124-149: the context is created, and the script takes the
\* production or the development branch.
CreateContext ==
  /\ pc = "context"
  /\ pc' = IF PRODUCTION THEN "rebuild" ELSE "watch"
  /\ UNCHANGED << env, dist, bpc, hpc, stack, packageJson, readmePending, builds,
                  buildOK, hookResult, console, escaped, written, failures, table,
                  reports, watching, serving, disposed, distBefore >>

\* Line 144: context.rebuild() starts the one build of a production run.
Rebuild ==
  /\ pc = "rebuild" /\ bpc = "idle"
  /\ pc' = "awaitRebuild"
  /\ bpc' = "emit"
  /\ builds' = builds + 1
  /\ UNCHANGED << env, dist, hpc, stack, packageJson, readmePending, buildOK,
                  hookResult, console, escaped, written, failures, table, reports,
                  watching, serving, disposed, distBefore >>

\* Line 144: the promise of rebuild() settles once the onEnd callbacks have
\* returned; it rejects when the build had errors or a callback threw, and
\* the rejection ends the process.
RebuildSettle ==
  /\ pc = "awaitRebuild" /\ bpc = "ended"
  /\ bpc' = "idle"
  /\ pc' = IF buildOK /\ escaped = {} THEN "dispose" ELSE "crashed"
  /\ UNCHANGED << env, dist, hpc, stack, packageJson, readmePending, builds, buildOK,
                  hookResult, console, escaped, written, failures, table, reports,
                  watching, serving, disposed, distBefore >>

\* Line 145: context.dispose()
Dispose ==
  /\ pc = "dispose"
  /\ disposed' = TRUE
  /\ pc' = "done"
  /\ UNCHANGED << env, dist, bpc, hpc, stack, packageJson, readmePending, builds,
                  buildOK, hookResult, console, escaped, written, failures, table,
                  reports, watching, serving, distBefore >>

\* Line 150: await context.watch(); a failure to start is fatal.
Watch ==
  /\ pc = "watch"
  /\ \E fail \in FailChoices :
       /\ failures' = Count(fail)
       /\ watching' = ~fail
       /\ pc' = IF fail THEN "crashed" ELSE "serve"
  /\ UNCHANGED << env, dist, bpc, hpc, stack, packageJson, readmePending, builds,
                  buildOK, hookResult, console, escaped, written, table, reports,
                  serving, disposed, distBefore >>

\* Watch mode starts a build: the first one, then one per change of the
\* sources, never two at a time.
WatchBuild ==
  /\ watching /\ Alive /\ bpc = "idle"
  /\ builds < MaxBuilds
  /\ builds' = builds + 1
  /\ bpc' = "emit"
  /\ UNCHANGED << env, mainVars, dist, hpc, stack, packageJson, readmePending, buildOK,
                  hookResult, console, escaped, written, failures, distBefore >>

\* Lines 151-156 and 162-203: serve() resolves and logServedFiles runs in
\* the same turn; readdirSync throws when dist does not exist, and a
\* rejection here ends the process.
Serve ==
  /\ pc = "serve"
  /\ \E fail \in FailChoices :
       /\ failures' = Count(fail)
       /\ serving' = ~fail
       /\ IF fail
          THEN /\ pc' = "crashed"
               /\ UNCHANGED << table, reports >>
          ELSE /\ reports' = reports + 1
               /\ IF IsDir(dist, <<>>)
                  THEN /\ table' = filesInfo(dist)
                       /\ pc' = "done"
                  ELSE /\ pc' = "crashed"
                       /\ UNCHANGED table
  /\ UNCHANGED << env, dist, bpc, hpc, stack, packageJson, readmePending, builds,
                  buildOK, hookResult, console, escaped, written, watching, disposed,
                  distBefore >>

\* ------------------------------------------------------ initial states

EmptyFiles == [p \in {} |-> DIR]

\* The project's package.json in the runs of Spec.
PkgDefault ==
  JsonText(<< <<"name", "v1">>, <<"scripts", "v1">>, <<"browser", "v2">> >>)
PkgFiles == {Missing, Blob("not json"), JsonNullText, PkgDefault}

ReadmeDefault == Blob("readme")
ReadmeFiles == {Missing, ReadmeDefault}

PublicEmpty == Tree(EmptyFiles, {<<>>})
PublicAssets ==
  Tree((<<nFavicon>> :> Blob("icon")) @@ (<<nAssets, nLogoCss>> :> Blob("logo")), {})
\* public/ holds entries with the names the other two hooks write.
PublicClash ==
  Tree((<<nPackageJson>> :> Blob("public package.json"))
         @@ (<<nReadme>> :> Blob("public readme")), {})
\* public/ holds a directory with the name of the bundle.
PublicOverBundle == Tree((<<nIndexJs, nInner>> :> Blob("inner")), {})
PublicTrees == {NoDir, PublicEmpty, PublicAssets, PublicClash, PublicOverBundle}

\* dist as an earlier run left it.
DistStale ==
  Tree((<<nIndexJs>> :> Blob("old bundle"))
         @@ (<<nPackageJson>> :> JsonText(<< <<"name", "v0">> >>))
         @@ (<<nOldTxt>> :> Blob("old"))
         @@ (<<nAssets, nOldTxt>> :> Blob("old asset")), {})
DistTrees == {NoDir, DistStale}

InitRun ==
  /\ pc = "context"
  /\ bpc = "idle"
  /\ hpc = "none"
  /\ stack = <<>>
  /\ packageJson = Missing
  /\ readmePending = FALSE
  /\ builds = 0
  /\ buildOK = FALSE
  /\ hookResult = NoResults
  /\ console = {}
  /\ escaped = {}
  /\ written = [h \in Hooks |-> {}]
  /\ failures = 0
  /\ table = <<>>
  /\ reports = 0
  /\ watching = FALSE
  /\ serving = FALSE
  /\ disposed = FALSE
  /\ distBefore = NoDir

Init ==
  /\ PRODUCTION \in BOOLEAN
  /\ sep \in IF PRODUCTION THEN {"/"} ELSE {"/", "\\"}
  /\ pkgFile \in IF PRODUCTION THEN PkgFiles ELSE {PkgDefault}
  /\ readmeFile \in IF PRODUCTION THEN ReadmeFiles ELSE {ReadmeDefault}
  /\ publicDir \in PublicTrees
  /\ dist \in DistTrees
  /\ InitRun

Next ==
  \/ CreateContext
  \/ Rebuild
  \/ RebuildSettle
  \/ Dispose
  \/ Watch
  \/ WatchBuild
  \/ Serve
  \/ Bundle
  \/ CopyAccess
  \/ CopyEnter
  \/ CopyEntryDir
  \/ CopyEntryFile
  \/ CopyReturn
  \/ GenerateRead
  \/ GenerateWrite
  \/ CopyReadmeStart
  \/ CopyReadmeSettle

Spec == Init /\ [][Next]_vars

\* Production runs over the package.json texts of up to MaxPairs members.
ManifestKeys == StrippedKeys \cup {"browser", "name"}
ManifestValues == {"v1", "v2"}
RECURSIVE SeqsUpTo(_, _)
SeqsUpTo(S, n) ==
  IF n = 0 THEN {<<>>}
  ELSE LET shorter == SeqsUpTo(S, n - 1)
       IN  shorter \cup {Append(q, x) : q \in shorter, x \in S}
ManifestTexts ==
  {JsonText(m) : m \in SeqsUpTo(ManifestKeys \X ManifestValues, MaxPairs)}

InitManifest ==
  /\ PRODUCTION = TRUE
  /\ sep = "/"
  /\ pkgFile \in ManifestTexts \cup {Missing, Blob("not json"), JsonNullText}
  /\ readmeFile = ReadmeDefault
  /\ publicDir = NoDir
  /\ dist = DistStale
  /\ InitRun

NextManifest ==
  \/ CreateContext
  \/ Rebuild
  \/ RebuildSettle
  \/ Dispose
  \/ Bundle
  \/ CopyAccess
  \/ GenerateRead
  \/ GenerateWrite
  \/ CopyReadmeStart
  \/ CopyReadmeSettle

SpecManifest == InitManifest /\ [][NextManifest]_vars

\* Development runs over the dist trees made of the files of ReportFiles.
ReportFiles ==
  (<<nIndexJs>> :> Blob("old bundle"))
    @@ (<<nIndexJsMap>> :> Blob("old sourcemap"))
    @@ (<<nIndexCss>> :> Blob("old css"))
    @@ (<<nAssets, nLogoCss>> :> Blob("logo"))
    @@ (<<nAssets, nInner, nIndexJsMap>> :> Blob("inner map"))
    @@ (<<nSrcMap, nFavicon>> :> Blob("icon"))
ReportTrees ==
  {NoDir} \cup
  {Tree([p \in F |-> ReportFiles[p]], D) :
     F \in SUBSET DOMAIN ReportFiles, D \in {{<<>>}, {<<nInner>>}}}

InitReport ==
  /\ PRODUCTION = FALSE
  /\ sep \in {"/", "\\"}
  /\ pkgFile = PkgDefault
  /\ readmeFile = ReadmeDefault
  /\ publicDir = PublicAssets
  /\ dist \in ReportTrees
  /\ InitRun

NextReport ==
  \/ CreateContext
  \/ Watch
  \/ WatchBuild
  \/ Serve
  \/ Bundle
  \/ CopyAccess
  \/ CopyEnter
  \/ CopyEntryDir
  \/ CopyEntryFile
  \/ CopyReturn

SpecReport == InitReport /\ [][NextReport]_vars

\* ================================================================ claims

ErrorLines ==
  {"Error in copyPublicPlugin:", "Error generating package.json:",
   "Error copying README.md:"}

\* A step of the copy-public-to-dist callback.
CopyPublicStep ==
  bpc = "copyPublic" /\ << bpc, hpc, stack >>' # << bpc, hpc, stack >>

\* C1: in a production run whose manifest hook succeeded, dist/package.json
\* parses to an object that has none of scripts, devDependencies, files and
\* publishConfig, has browser = "index.js", and has every key of the source
\* manifest other than those five with the value the source gives it.
C1_ManifestTransformed ==
  hookResult["generatePackageJson"] = "ok" =>
    LET M == JSONparse(pkgFile).members
        out == JSONparse(dist[<<nPackageJson>>])
    IN  /\ out.ok /\ out.isObject
        /\ Keys(out.members) \cap StrippedKeys = {}
        /\ "browser" \in Keys(out.members)
        /\ Get(out.members, "browser") = "index.js"
        /\ \A k \in Keys(M) \ (StrippedKeys \cup {"browser"}) :
             k \in Keys(out.members) /\ Get(out.members, k) = Get(M, k)

\* The hook has written the manifest of a source that has a stripped key,
\* a browser key of its own or a key written twice, and a key to keep.
C1_Witness ==
  /\ hookResult["generatePackageJson"] = "ok"
  /\ Keys(JSONparse(pkgFile).members) \cap StrippedKeys # {}
  /\ "name" \in Keys(JSONparse(pkgFile).members)
  /\ IsFile(dist, <<nPackageJson>>)

\* C2, as the claim states it: when copyRecursive(public, dist) completes
\* without a failure, the file paths of dist are exactly those of public and
\* each has the content of its source.
C2_Original ==
  [][(bpc = "copyPublic" /\ hookResult'["copyPublic"] = "ok") =>
       /\ FilePaths(dist') = FilePaths(publicDir)
       /\ \A f \in FilePaths(publicDir) : dist'[f] = publicDir[f]]_vars

\* C2, amended: when copyRecursive(public, dist) completes without a
\* failure, the file paths of dist are those of public together with those
\* dist held before the copy, and each file of public has the content of its
\* source.
C2_CopyAddsSourceTree ==
  [][(bpc = "copyPublic" /\ hookResult'["copyPublic"] = "ok") =>
       /\ FilePaths(dist') = FilePaths(distBefore) \cup FilePaths(publicDir)
       /\ \A f \in FilePaths(publicDir) : dist'[f] = publicDir[f]]_vars

\* A nested tree has been copied into a dist that already held the bundle.
C2_Witness ==
  /\ hookResult["copyPublic"] = "ok"
  /\ publicDir = PublicAssets
  /\ IsFile(dist, <<nAssets, nLogoCss>>)
  /\ IsFile(dist, <<nFavicon>>)
  /\ IsFile(distBefore, <<nIndexJs>>)

\* C3: no failure of a hook reaches the bundler; once the callbacks of a
\* production build have returned, copyPublic and generatePackageJson have
\* run to their end and copyReadme has or is still copying; and the run
\* goes on to dispose exactly when the bundler's own build succeeded.
C3_HookFailuresContained ==
  /\ escaped = {}
  /\ (PRODUCTION /\ (bpc = "ended" \/ pc \in {"dispose", "done"})) =>
       /\ hookResult["copyPublic"] # "none"
       /\ hookResult["generatePackageJson"] # "none"
       /\ (readmePending \/ hookResult["copyReadme"] # "none")
  /\ (PRODUCTION /\ pc \in {"dispose", "done"}) => buildOK
  /\ (PRODUCTION /\ pc = "crashed") => ~buildOK

\* A production run has ended with one hook failed and the other two done.
C3_Witness ==
  /\ PRODUCTION /\ pc = "done"
  /\ hookResult["copyPublic"] = "error"
  /\ hookResult["generatePackageJson"] = "ok"
  /\ hookResult["copyReadme"] = "ok"
  /\ "Error in copyPublicPlugin:" \in console

\* C4, as the claim states it: when a production run without an I/O failure
\* has disposed of the context, dist holds the transformed package.json,
\* the copy of README.md and every file of public/.
C4_OutputsInPlaceAtDispose ==
  (/\ disposed
   /\ failures = 0
   /\ console \cap ErrorLines = {}
   /\ readmeFile.kind = "blob"
   /\ JSONparse(pkgFile).ok /\ JSONparse(pkgFile).isObject) =>
    /\ IsFile(dist, <<nReadme>>) /\ dist[<<nReadme>>] = readmeFile
    /\ IsFile(dist, <<nPackageJson>>)
    /\ dist[<<nPackageJson>>] =
         JSONstringify(ModifyPackageJson(JSONparse(pkgFile).members))
    /\ \A f \in FilePaths(publicDir) : IsFile(dist, f) /\ dist[f] = publicDir[f]

\* C5, as the claim states it: no dist path is written by two hooks.
C5_DisjointOutputPaths ==
  \A h1 \in Hooks : \A h2 \in Hooks \ {h1} : written[h1] \cap written[h2] = {}

\* C6: when public/ does not exist, a step of the copy hook ends the hook
\* with the skip logged, and changes neither dist nor what the hooks have
\* written, logs no error and lets nothing reach the bundler.
C6_MissingPublicSkips ==
  [][(CopyPublicStep /\ ~Exists(publicDir, <<>>)) =>
       /\ hookResult'["copyPublic"] = "skipped"
       /\ dist' = dist
       /\ written' = written
       /\ escaped' = escaped
       /\ console' = console \cup
            {"Public directory does not exist. Skipping copy operation."}]_vars

\* The hook has skipped a missing public/ and dist still does not exist.
C6_Witness ==
  /\ ~Exists(publicDir, <<>>)
  /\ hookResult["copyPublic"] = "skipped"
  /\ ~Exists(dist, <<>>)
  /\ console \cap ErrorLines = {}

Last(q) == q[Len(q)]
Rank(n) == CHOOSE i \in DOMAIN NameOrder : NameOrder[i] = n
FirstDiff(f, g) == CHOOSE i \in 1..Len(f) : f[i] # g[i] /\ \A j \in 1..(i - 1) : f[j] = g[j]
\* g comes before f in a depth-first walk that lists each directory in
\* NameOrder (f and g are paths of files, so neither is a prefix of the other).
DfsBefore(g, f) == g # f /\ Rank(g[FirstDiff(g, f)]) < Rank(f[FirstDiff(g, f)])

RECURSIVE UrlOf(_)
UrlOf(f) ==
  IF f = <<>> THEN SERVE_ORIGIN
  ELSE UrlOf(SubSeq(f, 1, Len(f) - 1)) \o <<"/">> \o Last(f)

RowOf(f) ==
  [location |-> UrlOf(f),
   tag |-> <<IF Last(Last(f)) = ".css" THEN "link stylesheet" ELSE "script defer",
             UrlOf(f)>>]

ReportOf(t, tb) ==
  LET listed == {f \in FilePaths(t) : Last(Last(f)) # ".map"}
  IN  /\ Len(tb) = Cardinality(listed)
      /\ \A f \in listed :
           tb[1 + Cardinality({g \in listed : DfsBefore(g, f)})] = RowOf(f)

\* C7: the table logServedFiles prints has exactly one row for each file
\* under dist whose path does not end in .map, in depth-first order; the
\* row's URL is the origin, then "/" and each name of the file's path
\* joined with "/", and its snippet is the stylesheet link for a path
\* ending in .css and the deferred script tag otherwise.
C7_ReportListsServedFiles ==
  [][(pc = "serve" /\ pc' = "done") => ReportOf(dist, table')]_vars

\* On a platform whose separator is the backslash, the report has listed a
\* dist with nested files, a .map file and a directory named src.map.
C7_Witness ==
  /\ pc = "done" /\ sep = "\\"
  /\ builds = 0
  /\ IsFile(dist, <<nAssets, nInner, nIndexJsMap>>)
  /\ IsFile(dist, <<nSrcMap, nFavicon>>)
  /\ IsFile(dist, <<nIndexJs>>)
  /\ Len(table) = 3
  /\ table[1].location = SERVE_ORIGIN \o <<"/", "assets", "/", "logo", ".css">>
  /\ table[1].tag[1] = "link stylesheet"

\* C8: a step of the copy hook leaves every path of dist that does not
\* occur in public/ in place and unchanged, in every build.
C8_CopyIsAdditive ==
  [][CopyPublicStep =>
       \A p \in DOMAIN dist \ DOMAIN publicDir :
         p \in DOMAIN dist' /\ dist'[p] = dist[p]]_vars

\* After the second build's copy, the files an earlier run left are there.
C8_Witness ==
  /\ builds >= 2
  /\ hookResult["copyPublic"] = "ok"
  /\ publicDir = PublicAssets
  /\ IsFile(dist, <<nOldTxt>>) /\ dist[<<nOldTxt>>] = Blob("old")
  /\ IsFile(dist, <<nAssets, nOldTxt>>)
  /\ IsFile(dist, <<nAssets, nLogoCss>>)

\* C9: logServedFiles is called at most once, only in development and only
\* once watch has started and serve has resolved, and then it has been
\* called; a production run never calls it, and a development run never
\* disposes of the context.
C9_ReporterOnceAfterServe ==
  /\ reports <= 1
  /\ reports = 1 => (~PRODUCTION /\ watching /\ serving)
  /\ serving => reports = 1
  /\ PRODUCTION => reports = 0
  /\ ~PRODUCTION => ~disposed

\* The report was made before the copy of public/, two builds have run
\* since, and the report was not made again.
C9_Witness ==
  /\ ~PRODUCTION /\ reports = 1 /\ pc = "done"
  /\ builds >= 2 /\ bpc = "idle"
  /\ IsFile(dist, <<nFavicon>>)
  /\ \A i \in DOMAIN table : table[i].location # UrlOf(<<nFavicon>>)

\* C10: when package.json is missing or is not JSON, a step of the manifest
\* hook ends the hook with the error logged and changes nothing in dist.
C10_NoWriteOnReadFailure ==
  [][(bpc = "generatePackageJson" /\ pkgFile.kind \in {"missing", "blob"}) =>
       /\ dist' = dist
       /\ written' = written
       /\ escaped' = escaped
       /\ hookResult'["generatePackageJson"] = "error"
       /\ console' = console \cup {"Error generating package.json:"}]_vars

\* The hook has failed on a package.json that is not JSON, and the
\* package.json an earlier run left in dist is as it was.
C10_Witness ==
  /\ pkgFile.kind = "blob"
  /\ hookResult["generatePackageJson"] = "error"
  /\ IsFile(dist, <<nPackageJson>>)
  /\ dist[<<nPackageJson>>] = DistStale[<<nPackageJson>>]

====
